---------------------------- MODULE Spec2Model ----------------------------
(***************************************************************************)
(* A model of the huby crate (src/src/human.rs, src/src/human/standard.rs): *)
(* the ByteSize value type, its constructors, conversions, arithmetic,     *)
(* comparison, text rendering and text parsing.                            *)
(*                                                                         *)
(* TLC's integers are 32 bits wide while ByteSize carries a u64 and the    *)
(* unit constants reach 2^40, so every u64 is held as a natural number in  *)
(* base 1024: a sequence of limbs, least significant first, without        *)
(* leading (high) zero limbs.  <<>> is 0, <<0, 1>> is 1024.  Two naturals  *)
(* are equal exactly when their sequences are equal.                       *)
(***************************************************************************)
EXTENDS Integers, Sequences, FiniteSets, TLC

VARIABLES
    self,             \* the ByteSize a method is called on (`self`)
    rhs,              \* the right-hand operand of a binary operator
    text,             \* a string: parser input, or the serializer's output
    out,              \* what the last call returned (or how it ended)
    hist,             \* the in-place operations (+=, -=) applied to self, in order
    overflow_checks   \* the build: TRUE panics on integer overflow, FALSE wraps

vars == <<self, rhs, text, out, hist, overflow_checks>>

\* The field names of the records of this model.  TLC keeps the fields of a
\* record in the order in which it first met their names; every record below
\* writes its fields in the order of this list, so that TLC's workers never
\* have to reorder a record they share.
RecordFields ==
    [tag |-> 0, b |-> 0, panic |-> 0, ok |-> 0, kind |-> 0, val |-> 0, v |-> 0, str |-> 0,
     cls |-> 0, neg |-> 0, m |-> 0, e |-> 0, q |-> 0, r |-> 0, inexact |-> 0,
     op |-> 0, n |-> 0, before |-> 0, res |-> 0]

----------------------------------------------------------------------------
(* Natural numbers in base 1024                                            *)

\* TRUE.  TLC evaluates a LET definition or an operator's argument where it is
\* first used; stating Evaluated(v) ahead of a long computation on v evaluates v
\* there, which keeps TLC's evaluation stack shallow.  It changes no value.
Evaluated(v) == v = v

RECURSIVE Norm(_)
\* a limb sequence without its high zero limbs
Norm(a) ==
    IF a = <<>> THEN <<>>
    ELSE IF a[Len(a)] = 0 THEN Norm(SubSeq(a, 1, Len(a) - 1))
    ELSE a

RECURSIVE NOfInt(_)
\* the natural of a small non-negative TLC integer
NOfInt(i) == IF i = 0 THEN <<>> ELSE <<i % 1024>> \o NOfInt(i \div 1024)

NZero == <<>>
NOne == <<1>>

Limb(a, i) == IF i <= Len(a) THEN a[i] ELSE 0

MaxOf(i, j) == IF i >= j THEN i ELSE j

RECURSIVE AddC(_, _, _, _)
AddC(a, b, i, c) ==
    IF i > MaxOf(Len(a), Len(b))
    THEN (IF c = 0 THEN <<>> ELSE <<c>>)
    ELSE LET t == Limb(a, i) + Limb(b, i) + c
         IN  <<t % 1024>> \o AddC(a, b, i + 1, t \div 1024)

\* a + b
NAdd(a, b) == AddC(a, b, 1, 0)

RECURSIVE CmpFrom(_, _, _)
CmpFrom(a, b, i) ==
    IF i = 0 THEN 0
    ELSE IF a[i] < b[i] THEN -1
    ELSE IF a[i] > b[i] THEN 1
    ELSE CmpFrom(a, b, i - 1)

\* -1, 0, 1 as a < b, a = b, a > b
NCmp(a, b) ==
    IF Len(a) < Len(b) THEN -1
    ELSE IF Len(a) > Len(b) THEN 1
    ELSE CmpFrom(a, b, Len(a))

NLess(a, b) == NCmp(a, b) = -1
NLeq(a, b) == NCmp(a, b) <= 0

RECURSIVE SubB(_, _, _, _)
SubB(a, b, i, br) ==
    IF i > Len(a) THEN <<>>
    ELSE LET t == a[i] - Limb(b, i) - br
         IN  IF t < 0 THEN <<t + 1024>> \o SubB(a, b, i + 1, 1)
             ELSE <<t>> \o SubB(a, b, i + 1, 0)

\* a - b, for b <= a
NSub(a, b) == Norm(SubB(a, b, 1, 0))

RECURSIVE MulC(_, _, _, _)
MulC(a, m, i, c) ==
    IF i > Len(a) THEN NOfInt(c)
    ELSE LET t == a[i] * m + c
         IN  <<t % 1024>> \o MulC(a, m, i + 1, t \div 1024)

\* a * m, for a TLC integer 0 <= m < 2^20
NMulSmall(a, m) == Norm(MulC(a, m, 1, 0))

RECURSIVE DivC(_, _, _, _)
\* long division from the high limb down: [q |-> limbs of the quotient, r |-> remainder]
DivC(a, m, i, r) ==
    IF i = 0 THEN [q |-> <<>>, r |-> r]
    ELSE LET t == r * 1024 + a[i]
             rest == DivC(a, m, i - 1, t % m)
         IN  [q |-> rest.q \o <<t \div m>>, r |-> rest.r]

\* a \div m and a % m, for a TLC integer 0 < m < 2^20
NDivSmall(a, m) == LET d == DivC(a, m, Len(a), 0) IN [q |-> Norm(d.q), r |-> d.r]

RECURSIVE Pow2(_)
Pow2(k) == IF k = 0 THEN 1 ELSE 2 * Pow2(k - 1)

Zeros(n) == [i \in 1..n |-> 0]

\* a << bits, unbounded
NShl(a, bits) ==
    LET m == NMulSmall(a, Pow2(bits % 10))
    IN  IF m = <<>> THEN <<>> ELSE Zeros(bits \div 10) \o m

\* a >> bits
NShr(a, bits) ==
    LET k == bits \div 10
    IN  IF k >= Len(a) THEN <<>>
        ELSE NDivSmall(SubSeq(a, k + 1, Len(a)), Pow2(bits % 10)).q

\* a % 2^bits
NLowBits(a, bits) == NSub(a, NShl(NShr(a, bits), bits))

RECURSIVE IntBitLen(_)
IntBitLen(i) == IF i = 0 THEN 0 ELSE 1 + IntBitLen(i \div 2)

\* the number of significant bits of a (0 for 0)
NBitLen(a) == IF a = <<>> THEN 0 ELSE (Len(a) - 1) * 10 + IntBitLen(a[Len(a)])

NIsOdd(a) == a # <<>> /\ a[1] % 2 = 1


RECURSIVE MulAcc(_, _, _)
MulAcc(a, b, i) ==
    IF i > Len(b) THEN <<>>
    ELSE NAdd(NShl(NMulSmall(a, b[i]), 10 * (i - 1)), MulAcc(a, b, i + 1))

\* a * b, unbounded
NMul(a, b) == MulAcc(a, b, 1)

----------------------------------------------------------------------------
(* u64 arithmetic.  `+`, `-` and `*` on u64 panic on overflow when the     *)
(* build has overflow checks (the debug profile) and wrap modulo 2^64 when *)
(* it has not (the release profile).                                       *)

U64_BITS == 64

FitsU64(n) == NBitLen(n) <= U64_BITS

U64_MAX == NSub(NShl(NOne, U64_BITS), NOne)

\* what a u64 operation whose exact result is n yields
U64Result(n) ==
    IF FitsU64(n) THEN [panic |-> FALSE, v |-> n]
    ELSE IF overflow_checks THEN [panic |-> TRUE, v |-> NZero]
    ELSE [panic |-> FALSE, v |-> NLowBits(n, U64_BITS)]

u64_add(a, b) == U64Result(NAdd(a, b))

u64_mul(a, b) == U64Result(NMul(a, b))

u64_sub(a, b) ==
    IF NLeq(b, a) THEN [panic |-> FALSE, v |-> NSub(a, b)]
    ELSE IF overflow_checks THEN [panic |-> TRUE, v |-> NZero]
    ELSE [panic |-> FALSE, v |-> NSub(NAdd(a, NShl(NOne, U64_BITS)), b)]

----------------------------------------------------------------------------
(* human.rs                                                                *)

KB == NShl(NOne, 10)
MB == NShl(NOne, 20)
GB == NShl(NOne, 30)
TB == NShl(NOne, 40)

Unit == {"Bytes", "Kilo", "Mega", "Giga", "Tera"}

\* enum Size: a variant (the unit) carrying the value in bytes
Size(tag, b) == [tag |-> tag, b |-> b]

\* Size::default() and the derived ByteSize::default()
Default == Size("Bytes", NZero)

\* from_bytes with each threshold counted into the unit below it
from_bytes_le(b) ==
    IF NLeq(b, KB) THEN Size("Bytes", b)
    ELSE IF NLeq(b, MB) THEN Size("Kilo", b)
    ELSE IF NLeq(b, GB) THEN Size("Mega", b)
    ELSE IF NLeq(b, TB) THEN Size("Giga", b)
    ELSE Size("Tera", b)

from_bytes(b) ==
    IF NLess(b, KB) THEN Size("Bytes", b)
    ELSE IF NLess(b, MB) THEN Size("Kilo", b)
    ELSE IF NLess(b, GB) THEN Size("Mega", b)
    ELSE IF NLess(b, TB) THEN Size("Giga", b)
    ELSE Size("Tera", b)

in_bytes(x) ==
    CASE x.tag = "Bytes" -> x.b
      [] x.tag = "Kilo" -> x.b
      [] x.tag = "Mega" -> x.b
      [] x.tag = "Giga" -> x.b
      [] x.tag = "Tera" -> x.b

\* impl From<Size> for Unit, and ByteSize::unit
unit(x) ==
    CASE x.tag = "Bytes" -> "Bytes"
      [] x.tag = "Kilo" -> "Kilo"
      [] x.tag = "Mega" -> "Mega"
      [] x.tag = "Giga" -> "Giga"
      [] x.tag = "Tera" -> "Tera"

\* a call that returned val, and one that panicked
Returned(val) == [panic |-> FALSE, val |-> val]
Panicked == [panic |-> TRUE, val |-> Default]

\* Self::from_bytes(r) of a u64 expression r that may have panicked
FromU64(r) == IF r.panic THEN Panicked ELSE Returned(from_bytes(r.v))

from_bits_uncheked(b) == from_bytes(NDivSmall(b, 8).q)

\* from_kb without the scaling by KB
from_kb_unscaled(kb) == FromU64(u64_mul(kb, NOne))

from_kb(kb) == FromU64(u64_mul(kb, KB))

from_mb(mb) == FromU64(u64_mul(mb, MB))

from_gb(gb) == FromU64(u64_mul(gb, GB))

from_tb(gb) == FromU64(u64_mul(gb, TB))

unit_str(x) ==
    CASE x.tag = "Bytes" -> <<"B">>
      [] x.tag = "Kilo" -> <<"K", "B">>
      [] x.tag = "Mega" -> <<"M", "B">>
      [] x.tag = "Giga" -> <<"G", "B">>
      [] x.tag = "Tera" -> <<"T", "B">>

into_bytes(x) == Size("Bytes", in_bytes(x))
into_kb(x) == Size("Kilo", in_bytes(x))
into_mb(x) == Size("Mega", in_bytes(x))
into_gb(x) == Size("Giga", in_bytes(x))
into_tb(x) == Size("Tera", in_bytes(x))

\* normalize leaving the tag as it is
normalize_keep(x) == x

normalize(x) == from_bytes(in_bytes(x))

\* the sum under the left operand's tag
add_keep_tag(x, y) ==
    LET r == u64_add(in_bytes(x), in_bytes(y))
    IN  IF r.panic THEN Panicked ELSE Returned(Size(x.tag, r.v))

\* impl Add: Self::from_bytes(self.in_bytes() + rhs.in_bytes())
add(x, y) == FromU64(u64_add(in_bytes(x), in_bytes(y)))

\* the difference under the left operand's tag
sub_keep_tag(x, y) ==
    LET r == u64_sub(in_bytes(x), in_bytes(y))
    IN  IF r.panic THEN Panicked ELSE Returned(Size(x.tag, r.v))

\* impl Sub: Self::from_bytes(self.in_bytes() - rhs.in_bytes())
sub(x, y) == FromU64(u64_sub(in_bytes(x), in_bytes(y)))

\* equality of the variants, as a derived PartialEq would have it
eq_with_tag(x, y) == x = y

\* impl PartialEq: self.in_bytes() == other.in_bytes()
eq(x, y) == in_bytes(x) = in_bytes(y)

\* impl PartialOrd: Some(self.in_bytes().cmp(&other.in_bytes()))
partial_cmp(x, y) ==
    LET c == NCmp(in_bytes(x), in_bytes(y))
    IN  IF c < 0 THEN "Less" ELSE IF c > 0 THEN "Greater" ELSE "Equal"

\* impl Hash (standard.rs): what is fed to the hasher
hash(x) == in_bytes(x)

----------------------------------------------------------------------------
(* f64.  A float is [cls, neg, m, e]: cls "fin" is the number              *)
(* (-1)^neg * m * 2^e with m a natural below 2^53 (or 2^53 itself) and e   *)
(* a TLC integer; cls "inf" and "nan" are the infinities and NaN.  The     *)
(* exponent range of f64 (overflow to infinity, subnormals) is never       *)
(* reached by a u64 scaled by at most 2^40 or by a decimal of a few        *)
(* digits, and is not modelled.                                            *)

F64_MANTISSA_DIGITS == 53

Fin(neg, m, e) == [cls |-> "fin", neg |-> neg, m |-> m, e |-> e]

\* n >> t rounded to nearest, ties to even; sticky: nonzero bits lie below n
RoundNearestEven(n, t, sticky) ==
    IF t = 0 THEN n
    ELSE LET q == NShr(n, t)
             c == NCmp(NLowBits(n, t), NShl(NOne, t - 1))
         IN  IF c > 0 \/ (c = 0 /\ (sticky \/ NIsOdd(q))) THEN NAdd(q, NOne) ELSE q

\* the float nearest to (-1)^neg * n * 2^e (sticky as above)
RoundToF64(neg, n, e, sticky) ==
    LET t == NBitLen(n) - F64_MANTISSA_DIGITS
    IN  IF Evaluated(n) /\ t <= 0 THEN Fin(neg, n, e)
        ELSE Fin(neg, RoundNearestEven(n, t, sticky), e + t)

\* `n as f64`
u64_as_f64(n) == RoundToF64(FALSE, n, 0, FALSE)

\* x * y
f64_mul(x, y) ==
    IF x.cls = "nan" \/ y.cls = "nan" THEN [cls |-> "nan", neg |-> FALSE, m |-> NZero, e |-> 0]
    ELSE IF x.cls = "inf" \/ y.cls = "inf"
    THEN (IF (x.cls = "fin" /\ x.m = NZero) \/ (y.cls = "fin" /\ y.m = NZero)
          THEN [cls |-> "nan", neg |-> FALSE, m |-> NZero, e |-> 0]
          ELSE [cls |-> "inf", neg |-> (x.neg # y.neg), m |-> NZero, e |-> 0])
    ELSE RoundToF64(x.neg # y.neg, NMul(x.m, y.m), x.e + y.e, FALSE)

\* x / y for finite x and y a power of two (every divisor() is one): exact
f64_div(x, y) == Fin(x.neg # y.neg, x.m, x.e - (y.e + NBitLen(y.m) - 1))

\* x < y for finite x, y >= 0
f64_lt(x, y) ==
    LET e0 == IF x.e <= y.e THEN x.e ELSE y.e
    IN  NLess(NShl(x.m, x.e - e0), NShl(y.m, y.e - e0))

\* f64::round: to the nearest integer, halves away from zero
f64_round(x) ==
    IF x.cls # "fin" \/ x.e >= 0 THEN x
    ELSE LET t == 0 - x.e
             q == NShr(x.m, t)
         IN  Fin(x.neg, IF NLeq(NShl(NOne, t - 1), NLowBits(x.m, t)) THEN NAdd(q, NOne) ELSE q, 0)

\* `x as u64`: truncating and saturating, NaN to 0
f64_as_u64(x) ==
    IF x.cls = "nan" THEN NZero
    ELSE IF x.neg THEN NZero
    ELSE IF x.cls = "inf" THEN U64_MAX
    ELSE LET v == IF x.e >= 0 THEN NShl(x.m, x.e) ELSE NShr(x.m, 0 - x.e)
         IN  IF FitsU64(v) THEN v ELSE U64_MAX

RECURSIVE DivPow10From(_, _, _)
DivPow10From(n, d, inexact) ==
    IF Evaluated(n) /\ Evaluated(inexact) /\ d = 0 THEN [q |-> n, inexact |-> inexact]
    ELSE LET one == NDivSmall(n, 10)
         IN  DivPow10From(one.q, d - 1, inexact \/ one.r # 0)

\* n \div 10^d, and whether the division left a remainder
DivPow10(n, d) == DivPow10From(n, d, FALSE)

RECURSIVE MulPow10(_, _)
MulPow10(n, d) == IF Evaluated(n) /\ d = 0 THEN n ELSE MulPow10(NMulSmall(n, 10), d - 1)

\* the float nearest to the decimal (-1)^neg * n / 10^d, as f64::from_str rounds
f64_of_decimal(neg, n, d) ==
    LET s == U64_BITS + 4 * d
        w == DivPow10(NShl(n, s), d)
    IN  IF Evaluated(n) /\ Evaluated(w) THEN RoundToF64(neg, w.q, 0 - s, w.inexact)
        ELSE Fin(neg, NZero, 0)

----------------------------------------------------------------------------
(* Strings are sequences of one-character strings.                         *)

Digits == <<"0", "1", "2", "3", "4", "5", "6", "7", "8", "9">>

IsDigit(c) == \E i \in 1..10 : Digits[i] = c

DigitVal(c) == (CHOOSE i \in 1..10 : Digits[i] = c) - 1

RECURSIVE DecDigits(_)
\* the decimal digits of a natural, most significant first (none for 0)
DecDigits(n) ==
    IF n = <<>> THEN <<>>
    ELSE LET d == NDivSmall(n, 10) IN DecDigits(d.q) \o <<Digits[d.r + 1]>>

RECURSIVE DecValueFrom(_, _, _)
DecValueFrom(s, i, acc) ==
    IF Evaluated(acc) /\ i > Len(s) THEN acc
    ELSE DecValueFrom(s, i + 1, NAdd(NMulSmall(acc, 10), NOfInt(DigitVal(s[i]))))

\* the natural a string of digits writes
DecValue(s) == DecValueFrom(s, 1, NZero)

AllDigits(s) == \A i \in 1..Len(s) : IsDigit(s[i])

\* str::ends_with
ends_with(s, pat) ==
    Len(s) >= Len(pat) /\ SubSeq(s, Len(s) - Len(pat) + 1, Len(s)) = pat

RECURSIVE TrimEndLen(_, _, _)
\* how much of s[1..n] is left once the suffix pat is removed as often as it matches
TrimEndLen(s, pat, n) ==
    IF n >= Len(pat) /\ SubSeq(s, n - Len(pat) + 1, n) = pat
    THEN TrimEndLen(s, pat, n - Len(pat))
    ELSE n

\* str::trim_end_matches: the suffix is removed as often as it matches
trim_end_matches(s, pat) == SubSeq(s, 1, TrimEndLen(s, pat, Len(s)))

RECURSIVE TrimStartAt(_, _)
\* the first position of s, from i on, that holds no white space
TrimStartAt(s, i) == IF i <= Len(s) /\ s[i] = " " THEN TrimStartAt(s, i + 1) ELSE i

trim_start(s) == SubSeq(s, TrimStartAt(s, 1), Len(s))

\* str::trim: white space off both ends
trim(s) == trim_start(trim_end_matches(s, <<" ">>))

\* format!("{:.prec$}", x) for a finite x >= 0: the exact decimal expansion
\* rounded to prec digits, halves to even
format_f64(x, prec) ==
    LET scaled == MulPow10(x.m, prec)
        q == IF x.e >= 0 THEN NShl(scaled, x.e) ELSE RoundNearestEven(scaled, 0 - x.e, FALSE)
        ds == IF Evaluated(x) /\ Evaluated(scaled) /\ Evaluated(q) THEN DecDigits(q) ELSE <<>>
        pad == IF Len(ds) < prec + 1 THEN [i \in 1..(prec + 1 - Len(ds)) |-> "0"] \o ds ELSE ds
        int == SubSeq(pad, 1, Len(pad) - prec)
    IN  IF prec = 0 THEN int ELSE int \o <<".">> \o SubSeq(pad, Len(pad) - prec + 1, Len(pad))

\* str::parse::<u64>: an optional + and one digit or more, the value within u64
parse_u64(s) ==
    LET ds == IF s # <<>> /\ s[1] = "+" THEN SubSeq(s, 2, Len(s)) ELSE s
    IN  IF ds # <<>> /\ AllDigits(ds) /\ FitsU64(DecValue(ds))
        THEN [ok |-> TRUE, v |-> DecValue(ds)]
        ELSE [ok |-> FALSE, v |-> NZero]

\* where the decimal point of s is (Len(s) + 1 when it has none)
PointAt(s) == IF \E i \in 1..Len(s) : s[i] = "." THEN CHOOSE i \in 1..Len(s) : s[i] = "." /\ \A j \in 1..(i - 1) : s[j] # "." ELSE Len(s) + 1

\* str::parse::<f64> on strings without exponent, "inf" or "nan": an optional
\* sign, digits with at most one decimal point, one digit at least
parse_f64(s) ==
    LET signed == s # <<>> /\ s[1] \in {"+", "-"}
        body == IF signed THEN SubSeq(s, 2, Len(s)) ELSE s
        p == PointAt(body)
        ip == SubSeq(body, 1, p - 1)
        fp == SubSeq(body, p + 1, Len(body))
        n == DecValue(ip \o fp)
    IN  IF AllDigits(ip) /\ AllDigits(fp) /\ Len(ip) + Len(fp) > 0 /\ Evaluated(n)
        THEN [ok |-> TRUE, v |-> f64_of_decimal(signed /\ s[1] = "-", n, Len(fp))]
        ELSE [ok |-> FALSE, v |-> Fin(FALSE, NZero, 0)]

----------------------------------------------------------------------------
(* human.rs: the f64 side                                                  *)

\* Self::from_bytes((x * UNIT as f64).round() as u64)
from_f64(x, unit_bytes) ==
    LET scaled == f64_mul(x, u64_as_f64(unit_bytes))
        rounded == f64_round(scaled)
        b == f64_as_u64(rounded)
    IN  IF Evaluated(x) /\ Evaluated(scaled) /\ Evaluated(rounded) /\ Evaluated(b)
        THEN from_bytes(b) ELSE Default

from_kb_f64(kb) == from_f64(kb, KB)
from_mb_f64(mb) == from_f64(mb, MB)
from_gb_f64(gb) == from_f64(gb, GB)
from_tb_f64(gb) == from_f64(gb, TB)

divisor(x) ==
    CASE x.tag = "Bytes" -> Fin(FALSE, NOne, 0)
      [] x.tag = "Kilo" -> u64_as_f64(KB)
      [] x.tag = "Mega" -> u64_as_f64(MB)
      [] x.tag = "Giga" -> u64_as_f64(GB)
      [] x.tag = "Tera" -> u64_as_f64(TB)

in_unit(x) == f64_div(u64_as_f64(in_bytes(x)), divisor(x))

----------------------------------------------------------------------------
(* human/standard.rs                                                       *)

F64_ONE == Fin(FALSE, NOne, 0)

\* rendering under the current tag whatever the value
display_value_as_is(x) == x

\* the value Display and to_string_with_prec render: normalized when it is
\* below one unit of its own tag
display_value(x) == IF f64_lt(in_unit(x), F64_ONE) THEN normalize(x) ELSE x

\* impl Display: write!(f, "{:.1}{}", bs.in_unit(), bs.unit_str())
to_string(x) ==
    LET bs == display_value(x)
    IN  format_f64(in_unit(bs), 1) \o unit_str(bs)

\* ByteSize::to_string_with_prec
to_string_with_prec(x, prec) ==
    LET bs == display_value(x)
        s == format_f64(in_unit(bs), prec)
        f == trim_end_matches(trim_end_matches(s, <<"0">>), <<".">>)
    IN  f \o unit_str(bs)

SERIALIZE_PREC == 2

\* serializing through Display (one decimal, zeros kept)
serialize_display(x) == to_string(x)

\* impl Serialize: serializer.serialize_str(&self.to_string_with_prec(2))
serialize(x) == to_string_with_prec(x, SERIALIZE_PREC)

\* enum ParseError and the Ok side of Result<ByteSize, ParseError>
Ok(val) == [kind |-> "Ok", val |-> val, str |-> <<>>]
UnkUnit(s) == [kind |-> "UnkUnit", val |-> Default, str |-> s]
ParseInt == [kind |-> "ParseInt", val |-> Default, str |-> <<>>]
ParseFloat == [kind |-> "ParseFloat", val |-> Default, str |-> <<>>]

\* one fractional branch of from_str: s.trim_end_matches(suffix).trim().parse::<f64>()?
FloatBranch(s, suffix, unit_bytes) ==
    LET r == parse_f64(trim(trim_end_matches(s, suffix)))
    IN  IF r.ok THEN Ok(from_f64(r.v, unit_bytes)) ELSE ParseFloat

\* the bare-B branch reporting its failure as the fractional branches do
IntBranchParseFloat(s) ==
    LET r == parse_u64(trim(trim_end_matches(s, <<"B">>)))
    IN  IF r.ok THEN Ok(from_bytes(r.v)) ELSE ParseFloat

\* the bare-B branch of from_str: s.trim_end_matches('B').trim().parse::<u64>()?
IntBranch(s) ==
    LET r == parse_u64(trim(trim_end_matches(s, <<"B">>)))
    IN  IF r.ok THEN Ok(from_bytes(r.v)) ELSE ParseInt

\* from_str testing the bare B suffix before the longer ones
from_str_b_first(s) ==
    IF ends_with(s, <<"B">>) THEN IntBranch(s)
    ELSE UnkUnit(s)

\* impl FromStr for ByteSize
from_str(s) ==
    IF ends_with(s, <<"K", "B">>) THEN FloatBranch(s, <<"K", "B">>, KB)
    ELSE IF ends_with(s, <<"M", "B">>) THEN FloatBranch(s, <<"M", "B">>, MB)
    ELSE IF ends_with(s, <<"G", "B">>) THEN FloatBranch(s, <<"G", "B">>, GB)
    ELSE IF ends_with(s, <<"B">>) THEN IntBranch(s)
    ELSE UnkUnit(s)

\* Deserialize: visit_str(v) is v.parse::<ByteSize>()
deserialize(s) == from_str(s)

----------------------------------------------------------------------------
(* The values and inputs the model runs on.                                *)

\* how far around each threshold the byte counts reach
MaxDelta == 1

\* the naturals within MaxDelta of c
Near(c) ==
    {NAdd(c, NOfInt(d)) : d \in 0..MaxDelta}
        \cup {NSub(c, NOfInt(d)) : d \in {k \in 1..MaxDelta : NLeq(NOfInt(k), c)}}

\* the exponents of the unit thresholds (10 to 40) and beyond, of the inputs at
\* which k * KB, k * MB, k * GB and k * TB first leave u64 (54, 44, 34, 24),
\* and of the top bit of u64
Exponents == {0, 10, 20, 30, 40, 50, 60, 24, 34, 44, 54, 63}

\* byte counts, and inputs of the integer constructors
Magnitudes ==
    UNION {Near(NShl(NOne, e)) : e \in Exponents}
        \cup {NSub(U64_MAX, NOfInt(d)) : d \in 0..MaxDelta}
        \cup {NZero, NOfInt(8), NOfInt(12), NOfInt(2048)}

\* what a call left in `out`: the operation, its integer argument (0 when it
\* has none), the value it was called on, and how it ended
Call(op, n, before, res) == [op |-> op, n |-> n, before |-> before, res |-> res]

\* the last call and the one before it
Push(h, op) == IF h = <<>> THEN <<op>> ELSE <<h[Len(h)], op>>

Constructors == {"from_kb", "from_mb", "from_gb", "from_tb"}

Init ==
    /\ self = Default
    /\ rhs = Default
    /\ text = <<>>
    /\ out = Call("default", NZero, Default, Returned(Default))
    /\ hist = <<>>
    /\ overflow_checks \in BOOLEAN

\* a constructor call that ended as res: the value it built replaces self; a
\* panic builds nothing.  A constructor reads nothing of the state, so a run
\* builds one value and goes on with the methods called on it.
Construct(op, n, res) ==
    /\ hist = <<>>
    /\ out' = Call(op, n, self, res)
    /\ self' = IF res.panic THEN self ELSE res.val
    /\ hist' = IF res.panic THEN hist ELSE <<op>>
    /\ UNCHANGED <<rhs, text, overflow_checks>>

FromBytes == \E n \in Magnitudes : Construct("from_bytes", n, Returned(from_bytes(n)))

FromBitsUncheked ==
    \E n \in Magnitudes : Construct("from_bits_uncheked", n, Returned(from_bits_uncheked(n)))

FromKb == \E n \in Magnitudes : Construct("from_kb", n, from_kb(n))

FromMb == \E n \in Magnitudes : Construct("from_mb", n, from_mb(n))

FromGb == \E n \in Magnitudes : Construct("from_gb", n, from_gb(n))

FromTb == \E n \in Magnitudes : Construct("from_tb", n, from_tb(n))

\* a method that takes self and returns a ByteSize, which replaces self
Convert(op, val) ==
    /\ out' = Call(op, NZero, self, Returned(val))
    /\ self' = val
    /\ hist' = Push(hist, op)
    /\ UNCHANGED <<rhs, text, overflow_checks>>

IntoBytes == Convert("into_bytes", into_bytes(self))

IntoKb == Convert("into_kb", into_kb(self))

IntoMb == Convert("into_mb", into_mb(self))

IntoGb == Convert("into_gb", into_gb(self))

IntoTb == Convert("into_tb", into_tb(self))

Normalize == Convert("normalize", normalize(self))

Next ==
    \/ FromBytes
    \/ FromBitsUncheked
    \/ FromKb
    \/ FromMb
    \/ FromGb
    \/ FromTb
    \/ IntoBytes
    \/ IntoKb
    \/ IntoMb
    \/ IntoGb
    \/ IntoTb
    \/ Normalize

Spec == Init /\ [][Next]_vars

----------------------------------------------------------------------------
(* Properties of construction, conversion and normalization (Spec).        *)

\* the tag the half-open bounds give n: Bytes for [0, 2^10), Kilo for
\* [2^10, 2^20), Mega for [2^20, 2^30), Giga for [2^30, 2^40), Tera from 2^40 on
\* (n < 2^k exactly when n has at most k significant bits)
BestFitTag(n) ==
    IF NBitLen(n) <= 10 THEN "Bytes"
    ELSE IF NBitLen(n) <= 20 THEN "Kilo"
    ELSE IF NBitLen(n) <= 30 THEN "Mega"
    ELSE IF NBitLen(n) <= 40 THEN "Giga"
    ELSE "Tera"

\* the exact product of k and the byte constant of the constructor op
UnitExponent(op) ==
    CASE op = "from_kb" -> 10
      [] op = "from_mb" -> 20
      [] op = "from_gb" -> 30
      [] op = "from_tb" -> 40

ExactProduct(op, k) == NShl(k, UnitExponent(op))

\* C1: from_bytes(n) returns, for every n, a value whose in_bytes() is n and
\* whose tag is the one the half-open bounds give n.
C1_FromBytesTagsByBounds ==
    out.op = "from_bytes" =>
        /\ ~out.res.panic
        /\ in_bytes(out.res.val) = out.n
        /\ unit(out.res.val) = BestFitTag(out.n)

\* from_bytes ran on a threshold itself (2^20 is the first Mega)
C1_Witness ==
    /\ out.op = "from_bytes"
    /\ out.n = NShl(NOne, 20)
    /\ unit(out.res.val) = "Mega"

\* C3 as stated: from_kb, from_mb, from_gb and from_tb never fail and return, for
\* every u64 k, a value of k times the unit's byte constant with its best-fit tag.
C3_Original ==
    out.op \in Constructors =>
        /\ ~out.res.panic
        /\ in_bytes(out.res.val) = ExactProduct(out.op, out.n)
        /\ unit(out.res.val) = BestFitTag(ExactProduct(out.op, out.n))

\* C3 amended: when k times the byte constant fits u64 the constructor returns
\* that product with its best-fit tag; when it does not, the multiplication
\* overflows: the call panics in a build with overflow checks and otherwise
\* returns the product modulo 2^64 with the best-fit tag of that.
C3_ConstructorsScaleOrOverflow ==
    out.op \in Constructors =>
        LET p == ExactProduct(out.op, out.n)
            w == NLowBits(p, U64_BITS)
        IN  IF FitsU64(p)
            THEN /\ ~out.res.panic
                 /\ in_bytes(out.res.val) = p
                 /\ unit(out.res.val) = BestFitTag(p)
            ELSE IF overflow_checks THEN out.res.panic
            ELSE /\ ~out.res.panic
                 /\ in_bytes(out.res.val) = w
                 /\ unit(out.res.val) = BestFitTag(w)

\* from_kb(2048) returned 2 MB, tagged Mega
C3_Witness ==
    /\ out.op = "from_kb"
    /\ out.n = NOfInt(2048)
    /\ ~out.res.panic
    /\ in_bytes(out.res.val) = NShl(NOne, 21)
    /\ unit(out.res.val) = "Mega"

\* C10: normalize keeps in_bytes() and gives the tag of from_bytes(in_bytes()),
\* whatever tag the value carried; normalize of a value normalize just
\* returned changes neither its in_bytes() nor its tag.
C10_NormalizeCanonicalIdempotent ==
    /\ out.op = "normalize" =>
           /\ in_bytes(self) = in_bytes(out.before)
           /\ unit(self) = BestFitTag(in_bytes(out.before))
           /\ self = out.res.val
    /\ hist = <<"normalize", "normalize">> =>
           /\ in_bytes(self) = in_bytes(out.before)
           /\ unit(self) = unit(out.before)

\* normalize ran twice in a row on a value above the Bytes range
C10_Witness ==
    /\ hist = <<"normalize", "normalize">>
    /\ unit(self) # "Bytes"

----------------------------------------------------------------------------
(* Arithmetic and comparison (SpecArith): two operands, the operators      *)
(* applied to them.                                                        *)

\* how many in-place operations (+=, -=) one run applies to self
MaxAssign == 2

\* byte counts of the left operand: around 1, around the Mega threshold, the
\* Tera threshold, the top bit of u64 and the largest u64
LeftMagnitudes ==
    Near(NOne) \cup Near(MB) \cup {TB, NShl(NOne, U64_BITS - 1), U64_MAX}

\* byte counts of the right operand
RightMagnitudes == {NZero, NOne, MB, NShl(NOne, U64_BITS - 1), U64_MAX}

\* every tag on every byte count: from_bytes(n) followed by into_bytes(), ...,
\* into_tb() builds each of them
Tagged(magnitudes) == {Size(t, n) : t \in Unit, n \in magnitudes}

InitArith ==
    /\ self \in Tagged(LeftMagnitudes)
    /\ rhs \in Tagged(RightMagnitudes)
    /\ text = <<>>
    /\ out = Call("default", NZero, Default, Returned(Default))
    /\ hist = <<>>
    /\ overflow_checks \in BOOLEAN

\* an operator or method that takes self and rhs by value and returns res
Apply(op, res) ==
    /\ out' = Call(op, NZero, self, res)
    /\ UNCHANGED <<self, rhs, text, hist, overflow_checks>>

Add == Apply("add", add(self, rhs))

Sub == Apply("sub", sub(self, rhs))

Eq == Apply("eq", eq(self, rhs))

PartialCmp == Apply("partial_cmp", partial_cmp(self, rhs))

\* both operands fed to a hasher of the same kind
Hash == Apply("hash", <<hash(self), hash(rhs)>>)

\* an in-place operator: *self = res; a panic leaves self as it was
Assign(op, res) ==
    /\ Len(hist) < MaxAssign
    /\ out' = Call(op, NZero, self, res)
    /\ self' = IF res.panic THEN self ELSE res.val
    /\ hist' = Append(hist, [panic |-> res.panic, op |-> op, before |-> self])
    /\ UNCHANGED <<rhs, text, overflow_checks>>

\* impl AddAssign: *self = Self::from_bytes(self.in_bytes() + rhs.in_bytes())
AddAssign == Assign("add_assign", FromU64(u64_add(in_bytes(self), in_bytes(rhs))))

\* impl SubAssign: *self = Self::from_bytes(self.in_bytes() - rhs.in_bytes())
SubAssign == Assign("sub_assign", FromU64(u64_sub(in_bytes(self), in_bytes(rhs))))

NextArith ==
    \/ Add
    \/ Sub
    \/ Eq
    \/ PartialCmp
    \/ Hash
    \/ AddAssign
    \/ SubAssign

SpecArith == InitArith /\ [][NextArith]_vars

----------------------------------------------------------------------------
(* Properties of arithmetic and comparison (SpecArith).                    *)

\* n - 2^64 for a sum 2^64 <= n < 2^65, and n + 2^64
Minus2To64(n) == NSub(n, NShl(NOne, U64_BITS))
Plus2To64(n) == NAdd(n, NShl(NOne, U64_BITS))

\* the call returned a value of n bytes under the best-fit tag of n
ReturnedBestFit(n) ==
    /\ ~out.res.panic
    /\ in_bytes(out.res.val) = n
    /\ unit(out.res.val) = BestFitTag(n)

\* what an in-place operator left in self: the value it built, or, after a
\* panic, the value self had
AssignedOrKept ==
    out.op \in {"add_assign", "sub_assign"} =>
        self = (IF out.res.panic THEN out.before ELSE out.res.val)

\* C2 as stated: for all a and b, a + b and a += b produce a value of
\* a.in_bytes() + b.in_bytes() bytes under the best-fit tag of that sum.
C2_Original ==
    out.op \in {"add", "add_assign"} =>
        ReturnedBestFit(NAdd(out.before.b, rhs.b))

\* C2 amended: when a.in_bytes() + b.in_bytes() fits u64, a + b and a += b
\* produce that sum under its best-fit tag, whatever the tags of a and b; when
\* it does not, the addition overflows: a panic in a build with overflow checks
\* (a += b then leaves a as it was), otherwise the sum modulo 2^64 under the
\* best-fit tag of that.
C2_AddSumsOrOverflows ==
    out.op \in {"add", "add_assign"} =>
        LET s == NAdd(out.before.b, rhs.b)
        IN  /\ IF FitsU64(s) THEN ReturnedBestFit(s)
               ELSE IF overflow_checks THEN out.res.panic
               ELSE ReturnedBestFit(Minus2To64(s))
            /\ AssignedOrKept

\* a += b carried a Tera-tagged 2^20 - 1 bytes and a Giga-tagged byte to 2^20
\* bytes tagged Mega
C2_Witness ==
    /\ out.op = "add_assign"
    /\ out.before = Size("Tera", NSub(MB, NOne))
    /\ rhs = Size("Giga", NOne)
    /\ self = Size("Mega", MB)

\* C4: x == y exactly when their byte counts are equal, x < y exactly when x's
\* byte count is the smaller, and values that are equal feed the hasher the
\* same data, whatever the tags of x and y.
C4_CompareByBytesOnly ==
    /\ out.op = "eq" => (out.res <=> self.b = rhs.b)
    /\ out.op = "partial_cmp" =>
           /\ (out.res = "Less") <=> NLess(self.b, rhs.b)
           /\ (out.res = "Equal") <=> self.b = rhs.b
           /\ (out.res = "Greater") <=> NLess(rhs.b, self.b)
    /\ out.op = "hash" => (self.b = rhs.b => out.res[1] = out.res[2])

\* == held between 2^20 bytes tagged Bytes and 2^20 bytes tagged Tera
C4_Witness ==
    /\ out.op = "eq"
    /\ self = Size("Bytes", MB)
    /\ rhs = Size("Tera", MB)
    /\ out.res

\* the byte count a -= b was applied to, and the one it left
AfterAssign(i) == IF i = Len(hist) THEN self ELSE hist[i + 1].before

\* C9: when b.in_bytes() <= a.in_bytes(), a - b and a -= b yield the difference
\* under its best-fit tag, whatever the tags of a and b, and an a += b that
\* returned, followed by a -= b, leaves a value equal to the first; when
\* b.in_bytes() > a.in_bytes()
\* the call is an arithmetic fault, a panic or the difference modulo 2^64, and
\* never an error value.
C9_SubDiffersOrFaults ==
    /\ out.op \in {"sub", "sub_assign"} =>
           /\ IF NLeq(rhs.b, out.before.b)
              THEN ReturnedBestFit(NSub(out.before.b, rhs.b))
              ELSE IF overflow_checks THEN out.res.panic
              ELSE ReturnedBestFit(NSub(Plus2To64(out.before.b), rhs.b))
           /\ AssignedOrKept
    /\ \A i \in 1..(Len(hist) - 1) :
           (/\ hist[i].op = "add_assign"
            /\ ~hist[i].panic
            /\ hist[i + 1].op = "sub_assign")
               => /\ ~hist[i + 1].panic
                  /\ AfterAssign(i + 1).b = hist[i].before.b
                  /\ AfterAssign(i + 1).tag = BestFitTag(hist[i].before.b)

\* a += b then a -= b brought a Tera-tagged 2^20 - 1 bytes back, tagged Kilo
C9_Witness ==
    /\ Len(hist) = 2
    /\ hist[1].op = "add_assign"
    /\ hist[2].op = "sub_assign"
    /\ hist[1].before = Size("Tera", NSub(MB, NOne))
    /\ rhs.b = NOne
    /\ self = Size("Kilo", NSub(MB, NOne))

----------------------------------------------------------------------------
(* Text (SpecText): a value that is rendered and serialized, or a string   *)
(* that is parsed.                                                         *)

\* how many characters stand before the unit suffix of a parsed string
MaxBodyLen == 2

\* the largest precision to_string_with_prec is called with
MaxPrec == 3

\* byte counts that are rendered: around 1 and around each unit threshold, the
\* values of the crate's tests and documentation (10.42 KB is 10670 bytes,
\* 1.5 KB is 1536), the values just under 1.005 KB, MB and GB, which two
\* decimals render furthest from themselves, the end of the integers f64 holds
\* exactly (2^53), the top bit of u64 and the largest u64
TextMagnitudes ==
    Near(NOne) \cup Near(KB) \cup Near(MB) \cup Near(GB) \cup Near(TB)
        \cup Near(NShl(NOne, F64_MANTISSA_DIGITS))
        \cup {NOfInt(10), NOfInt(1536), NOfInt(10670),
              NAdd(KB, NOfInt(5)), NAdd(MB, NOfInt(5242)), NAdd(GB, NOfInt(5368709)),
              NShl(NOne, U64_BITS - 1), NSub(U64_MAX, KB), U64_MAX}

\* the characters before the suffix: digits, the decimal point, signs, white
\* space and a letter
BodyChars == {"1", "5", ".", "-", "+", " ", "X"}

Bodies == UNION {[1..k -> BodyChars] : k \in 0..MaxBodyLen}

Suffixes == {<<>>, <<"B">>, <<"K", "B">>, <<"M", "B">>, <<"G", "B">>, <<"T", "B">>}

\* the strings of the crate's tests and documentation, of the specification,
\* and the decimal digits of 2^64 - 1 and 2^64
Corpus ==
    {<<"1", "0", "B">>,
     <<"1", "0", ".", "9", "K", "B">>,
     <<"1", "0", ".", "1", "M", "B">>,
     <<"1", "0", ".", "4", "2", "G", "B">>,
     <<"4", "2", ".", "4", "2", " ", "K", "B">>,
     <<"1", "0", ".", "4", "2", "K", "B">>,
     <<"5", "M", "B">>,
     <<"1", "G", "B">>,
     <<"1", "0", "X", "B">>,
     <<"a", "b", "c", "K", "B">>,
     <<"1", "K", "B", "K", "B">>,
     <<"1", "B", "B">>,
     DecDigits(U64_MAX) \o <<"B">>,
     DecDigits(NShl(NOne, U64_BITS)) \o <<"B">>}

Strings == {body \o suffix : body \in Bodies, suffix \in Suffixes} \cup Corpus

InitText ==
    /\ \/ self \in Tagged(TextMagnitudes) /\ text = <<>>
       \/ self = Default /\ text \in Strings
    /\ rhs = Default
    /\ out = Call("default", NZero, Default, Returned(Default))
    /\ hist = <<>>
    /\ overflow_checks \in BOOLEAN

\* a method that reads self, or a function that reads text, and returns res
Query(op, n, res) ==
    /\ out' = Call(op, n, self, res)
    /\ UNCHANGED <<self, rhs, text, hist, overflow_checks>>

\* impl Display, through ToString::to_string
Display == Query("to_string", NZero, to_string(self))

ToStringWithPrec ==
    \E prec \in 0..MaxPrec :
        Query("to_string_with_prec", NOfInt(prec), to_string_with_prec(self, prec))

\* impl Serialize: the string goes out as the serialized form of self
Serialize ==
    /\ text' = serialize(self)
    /\ out' = Call("serialize", NZero, self, text')
    /\ hist' = <<"serialize">>
    /\ UNCHANGED <<self, rhs, overflow_checks>>

\* text.parse::<ByteSize>()
FromStr == Query("from_str", NZero, from_str(text))

\* impl Deserialize, on the string at hand
Deserialize == Query("deserialize", NZero, deserialize(text))

NextText ==
    \/ Display
    \/ ToStringWithPrec
    \/ Serialize
    \/ FromStr
    \/ Deserialize

SpecText == InitText /\ [][NextText]_vars

----------------------------------------------------------------------------
(* Properties of parsing (SpecText).                                       *)

Parsed == out.op \in {"from_str", "deserialize"}

\* the last k characters of text, and text without them
LastChars(k) == IF Len(text) >= k THEN SubSeq(text, Len(text) - k + 1, Len(text)) ELSE <<>>
Without(k) == SubSeq(text, 1, Len(text) - k)

FractionalSuffixes == {<<"K", "B">>, <<"M", "B">>, <<"G", "B">>}

EndsFractional == Len(text) >= 2 /\ LastChars(2) \in FractionalSuffixes
EndsInB == Len(text) >= 1 /\ LastChars(1) = <<"B">>

\* the characters a number is written with
NumberChars == {Digits[i] : i \in 1..10} \cup {".", "+", "-", " "}

\* the B at the end of text stands alone: no letter before it
BareB == EndsInB /\ (Len(text) = 1 \/ text[Len(text) - 1] \in NumberChars)

\* what is left of text for the number: the suffix taken off as often as it
\* ends the string, then the white space around
NumberPart(suffix) == trim(trim_end_matches(text, suffix))

\* C5 as stated: a string whose suffix is none of KB, MB, GB and a bare B (as
\* the XB of "10XB") returns UnkUnit with the string; a KB, MB or GB string
\* whose number is no float returns ParseFloat; a bare B string whose number is
\* no unsigned integer returns ParseInt.
C5_Original ==
    Parsed =>
        /\ ~(EndsFractional \/ BareB) => out.res = UnkUnit(text)
        /\ (EndsFractional /\ ~parse_f64(NumberPart(LastChars(2))).ok)
               => out.res.kind = "ParseFloat"
        /\ (BareB /\ ~parse_u64(NumberPart(<<"B">>)).ok) => out.res.kind = "ParseInt"

\* C5 amended: a string that does not end in B returns UnkUnit carrying the
\* string; a string ending in KB, MB or GB fails exactly when what is left for
\* the number is no float, with ParseFloat; every other string ending in B,
\* whatever stands before the B ("10XB", "5TB"), fails exactly when what is
\* left for the number is no unsigned 64-bit integer, with ParseInt, and never
\* with UnkUnit.  There is no other failure.
C5_ParseFailures ==
    Parsed =>
        /\ out.res.kind \in {"Ok", "UnkUnit", "ParseInt", "ParseFloat"}
        /\ ~EndsInB => out.res = UnkUnit(text)
        /\ EndsFractional =>
               out.res.kind = (IF parse_f64(NumberPart(LastChars(2))).ok
                               THEN "Ok" ELSE "ParseFloat")
        /\ (EndsInB /\ ~EndsFractional) =>
               out.res.kind = (IF parse_u64(NumberPart(<<"B">>)).ok
                               THEN "Ok" ELSE "ParseInt")

\* "10XB" was parsed and ended in ParseInt
C5_Witness ==
    /\ out.op = "from_str"
    /\ text = <<"1", "0", "X", "B">>
    /\ out.res = ParseInt

\* the fractional constructor a suffix selects
FromFractional(suffix, x) ==
    CASE suffix = <<"K", "B">> -> from_kb_f64(x)
      [] suffix = <<"M", "B">> -> from_mb_f64(x)
      [] suffix = <<"G", "B">> -> from_gb_f64(x)

\* C6: a number followed by KB, MB or GB parses to from_kb_f64, from_mb_f64 or
\* from_gb_f64 of that number, never through the bare-B path; an unsigned
\* integer followed by B alone parses to from_bytes of it; "5MB" is 5 * 2^20
\* bytes and "10B" is 10 bytes.  White space around the number is ignored.
C6_SuffixPriority ==
    Parsed =>
        /\ (EndsFractional /\ parse_f64(trim(Without(2))).ok) =>
               out.res = Ok(FromFractional(LastChars(2), parse_f64(trim(Without(2))).v))
        /\ (EndsInB /\ parse_u64(trim(Without(1))).ok) =>
               out.res = Ok(from_bytes(parse_u64(trim(Without(1))).v))
        /\ text = <<"5", "M", "B">> => out.res = Ok(Size("Mega", NMulSmall(MB, 5)))
        /\ text = <<"1", "0", "B">> => out.res = Ok(Size("Bytes", NOfInt(10)))

\* "5MB" was parsed to 5 * 2^20 bytes
C6_Witness ==
    /\ out.op = "from_str"
    /\ text = <<"5", "M", "B">>
    /\ out.res.kind = "Ok"
    /\ in_bytes(out.res.val) = NMulSmall(MB, 5)

----------------------------------------------------------------------------
(* Properties of rendering and of the serialization round trip (SpecText). *)

\* the bytes in one unit of a tag
UnitBytes(t) ==
    CASE t = "Bytes" -> NOne
      [] t = "Kilo" -> NShl(NOne, 10)
      [] t = "Mega" -> NShl(NOne, 20)
      [] t = "Giga" -> NShl(NOne, 30)
      [] t = "Tera" -> NShl(NOne, 40)

SuffixOf(t) ==
    CASE t = "Bytes" -> <<"B">>
      [] t = "Kilo" -> <<"K", "B">>
      [] t = "Mega" -> <<"M", "B">>
      [] t = "Giga" -> <<"G", "B">>
      [] t = "Tera" -> <<"T", "B">>

\* the value is smaller than one unit of its tag
BelowOneUnit(x) == NLess(x.b, UnitBytes(x.tag))

\* the tag a value is rendered under
RenderedTag(x) == IF BelowOneUnit(x) THEN BestFitTag(x.b) ELSE x.tag

\* s is a number (digits, at most one decimal point among them, ending in a
\* digit) followed by suffix
NumberThen(s, suffix) ==
    LET k == Len(s) - Len(suffix)
    IN  /\ k >= 1
        /\ SubSeq(s, k + 1, Len(s)) = suffix
        /\ \A i \in 1..k : IsDigit(s[i]) \/ s[i] = "."
        /\ Cardinality({i \in 1..k : s[i] = "."}) <= 1
        /\ IsDigit(s[k])

\* C8: a value below one unit of its tag (in_unit() < 1.0) is rendered, by
\* Display and by to_string_with_prec, under the best-fit tag of its byte count
\* and, unless it is 0, as a number that is at least 1; every other value is
\* rendered under its own tag.  from_kb(1).into_tb() is "1KB" at precision 2.
C8_BelowThresholdDisplay ==
    out.op \in {"to_string", "to_string_with_prec"} =>
        /\ f64_lt(in_unit(out.before), F64_ONE) <=> BelowOneUnit(out.before)
        /\ out.before.b # NZero =>
               /\ NumberThen(out.res, SuffixOf(RenderedTag(out.before)))
               /\ out.res[1] # "0"
        /\ out.before.b = NZero => ends_with(out.res, <<"B">>) /\ Len(out.res) <= 4
        /\ (/\ out.op = "to_string_with_prec"
            /\ out.n = NOfInt(SERIALIZE_PREC)
            /\ out.before = Size("Tera", UnitBytes("Kilo")))
               => out.res = <<"1", "K", "B">>

\* Display rendered one KB tagged Tera as "1.0KB"
C8_Witness ==
    /\ out.op = "to_string"
    /\ out.before = Size("Tera", UnitBytes("Kilo"))
    /\ out.res = <<"1", ".", "0", "K", "B">>

\* |a - b|
AbsDiff(a, b) == IF NLeq(a, b) THEN NSub(b, a) ELSE NSub(a, b)

\* the string at hand is the serialized form of self, and was deserialized
RoundTrip == out.op = "deserialize" /\ hist = <<"serialize">>

\* C7 as stated: the serialized form of every value is accepted by the parser
\* and deserializes to a value of the same byte count.
C7_Original ==
    RoundTrip => out.res.kind = "Ok" /\ in_bytes(out.res.val) = in_bytes(self)

\* the integers below 2^53 are the ones f64 holds exactly
ExactInF64(n) == NBitLen(n) <= F64_MANTISSA_DIGITS

\* C7 amended.  With N the byte count of v and u the unit v is rendered in
\* (its tag, or its best-fit tag when N is below one unit of its tag):
\*   u Tera: the serialized form ends in "TB" and is rejected, with ParseInt;
\*   u Bytes, N < 2^53: accepted, the value has N bytes exactly;
\*   u Kilo, Mega or Giga, N < 2^53: accepted, the value has a best-fit tag
\*     and a byte count within u/200 + 2 of N, and N itself when N < 2^52 is
\*     a whole number of hundredths of u;
\*   N >= 2^53 (u not Tera): u Bytes and N >= 2^64 - 2^10 is rejected with
\*     ParseInt (the digits written are those of 2^64); everything else is
\*     accepted with a byte count within u/200 + 2 + N/2^52 of N.
C7_RoundTripWithinPrecision ==
    RoundTrip =>
        LET N == self.b
            t == RenderedTag(self)
            u == UnitBytes(t)
            got == in_bytes(out.res.val)
            whole == NLowBits(NMulSmall(N, 100), NBitLen(u) - 1) = NZero
        IN  IF t = "Tera" THEN out.res = ParseInt
            ELSE IF ExactInF64(N) /\ t = "Bytes" THEN out.res = Ok(from_bytes(N))
            ELSE IF ExactInF64(N)
            THEN /\ out.res.kind = "Ok"
                 /\ unit(out.res.val) = BestFitTag(got)
                 /\ NLeq(NMulSmall(AbsDiff(got, N), 200), NAdd(u, NOfInt(400)))
                 /\ (NBitLen(N) < F64_MANTISSA_DIGITS /\ whole) => got = N
            ELSE IF t = "Bytes" /\ NLeq(NSub(U64_MAX, NOfInt(1023)), N)
            THEN out.res = ParseInt
            ELSE /\ out.res.kind = "Ok"
                 /\ unit(out.res.val) = BestFitTag(got)
                 /\ NLeq(NMulSmall(AbsDiff(got, N), 200),
                         NAdd(NAdd(u, NOfInt(400)),
                              NMulSmall(NShr(N, F64_MANTISSA_DIGITS - 1), 200)))

\* 10670 bytes (10.42 KB) went out as "10.42KB" and came back as 10670 bytes
C7_Witness ==
    /\ RoundTrip
    /\ self = Size("Kilo", NOfInt(10670))
    /\ text = <<"1", "0", ".", "4", "2", "K", "B">>
    /\ out.res = Ok(Size("Kilo", NOfInt(10670)))

============================================================================
